---- MODULE Spec2Model ----
(***************************************************************************)
(* Data_API: the connection registry (config.py) and the ingestion job     *)
(* coordinator (services/vector_store_service.py) as driven by the         *)
(* ingestion router (routers/ingestion_router.py).                         *)
(*                                                                         *)
(* The HTTP handlers are `async def` functions without await points: each  *)
(* one is a single atomic step of the event loop.  process_ingestion is a  *)
(* plain function handed to BackgroundTasks, so it runs on a worker thread *)
(* after the response was produced and interleaves, statement by           *)
(* statement, with the handlers and with the other jobs' workers.          *)
(***************************************************************************)
EXTENDS Integers, Sequences, FiniteSets, TLC

\* ---------------------------------------------------------------- bounds
MaxJobs == 2        \* job records ever created
MaxFiles == 2       \* item identifiers submitted, over all jobs
MaxConns == 1       \* connection ids ever minted

\* ------------------------------------------------------------ value sets
DataSourceType == {"confluence", "gdrive", "jira", "local_pdf", "sharepoint"}

\* the source types connections are opened for (none of them writes os.environ)
ConnectSourceTypes == {"gdrive", "local_pdf"}

\* The item identifiers callers submit; for local_pdf they are paths.
FileIds == {"a.pdf", "b.pdf"}

JobIds == 1..MaxJobs
\* the ids the registry issues, and the ids a caller may send: 0 is never issued
ConnIds == 1..MaxConns
RequestConnIds == 0..MaxConns

\* the value None of a client handle, of a path, of an error text
None == "None"

FileLists == UNION {[1..n -> FileIds] : n \in 0..MaxFiles}

\* The source types requests name: local files, a remote download (gdrive;
\* the sharepoint branch of the fetch downloads to a temporary file the same
\* way), and the two source types without a fetch implementation.
IngestSourceTypes == {"local_pdf", "gdrive", "confluence", "jira"}

\* IngestionRequest: file_ids is a required List[str]; no length constraint.
IngestionRequest ==
    [source_type : IngestSourceTypes, connection_id : RequestConnIds,
     file_ids : FileLists]

VARIABLES
    connections,  \* ConnectionManager._connections
    minted,       \* number of connection ids generated so far
    ingestion_jobs, \* VectorStoreService.ingestion_jobs
    tasks,        \* per job: the process_ingestion call (worker thread), its locals
    fs,           \* the local files that exist
    response,     \* what the step just taken returned to its caller, if any
    clock,        \* the latest value datetime.now() has returned
    environ       \* whose settings the SHAREPOINT_* variables of os.environ hold

vars == <<connections, minted, ingestion_jobs, tasks, fs, response, clock, environ>>

\* ------------------------------------------------------------- registry
\* create_connection, the successful path: the entry holds the built client.
NewConnection(source_type, id) ==
    [source_type |-> source_type, client |-> id]

\* get_client -> get_connection: raises ValueError for an unknown id.
KnownConnection(connection_id) == connection_id \in DOMAIN connections

get_client(connection_id) == connections[connection_id].client

\* ----------------------------------------------------------- coordinator
\* (variant) an identifier generator that repeats itself
ReusedJobId(jobs) == 1

\* job_id = f"job_{uuid4().hex[:12]}": a fresh identifier.
NewJobId(jobs) == Cardinality(DOMAIN jobs) + 1

\* (variant) the initial record holds one pending Progress per requested item
PendingProgress(request) ==
    [i \in 1..Len(request.file_ids) |->
        [file_id |-> request.file_ids[i], status |-> "pending", error |-> None]]

\* 'progress': [] of the initial record and progress=[] of the response.
InitialProgress(request) == <<>>

\* the record create_ingestion_job stores
NewJob(request) ==
    [status |-> "pending",
     source_type |-> request.source_type,
     connection_id |-> request.connection_id,
     file_ids |-> request.file_ids,
     total_files |-> Len(request.file_ids),
     completed_files |-> 0,
     failed_files |-> 0,
     progress |-> InitialProgress(request),
     completed_at |-> None]

\* the IngestionResponse create_ingestion_job returns
JobResponse(job_id, request) ==
    [kind |-> "ingest", code |-> 200, job_id |-> job_id,
     total_files |-> Len(request.file_ids), progress |-> <<>>]

\* IngestionStatus(**job): the snapshot a status query returns
get_job_status(job_id) ==
    LET job == ingestion_jobs[job_id] IN
    [job_id |-> job_id, status |-> job.status, total_files |-> job.total_files,
     completed_files |-> job.completed_files, failed_files |-> job.failed_files,
     progress |-> job.progress, completed_at |-> job.completed_at]

HttpError(code) == [kind |-> "error", code |-> code]

\* no HTTP response: the step was one of a worker thread
NoResponse == [kind |-> "none"]

\* 'client': None, the handle of an entry whose client is not built
NoClient == 0

\* os.environ as the deployment set it up (load_dotenv), before any create
DeploymentEnv == 0

\* the progress_item local before the loop has made one
NoItem == [file_id |-> None, status |-> None, chunks_created |-> 0, error |-> None]

\* a task that was never scheduled
NoTask ==
    [pc |-> "none", client |-> NoClient, source_type |-> None, i |-> 0,
     item |-> NoItem, temp |-> None, closed |-> FALSE, ready |-> FALSE]

\* background_tasks.add_task(process_ingestion, job_id, client, source_type)
QueuedTask(client, source_type) ==
    [NoTask EXCEPT !.pc = "queued", !.client = client, !.source_type = source_type]

Init ==
    /\ connections = <<>>
    /\ minted = 0
    /\ ingestion_jobs = <<>>
    /\ tasks = [j \in JobIds |-> NoTask]
    /\ fs = {"a.pdf"}
    /\ response = NoResponse
    /\ clock = 0
    /\ environ = DeploymentEnv

\* ------------------------------------------------- handlers (event loop)
\* POST /{source}/connect -> ConnectionManager.create_connection.  `built` is
\* whether _initialize_client returned a client; when it raised, the entry
\* stored at the top of the call is deleted again and the router answers 500.
create_connection(source_type, built) ==
    /\ minted < MaxConns
    /\ LET connection_id == minted + 1 IN
       IF built
       THEN /\ connections' = (connection_id :> NewConnection(source_type, connection_id))
                                @@ connections
            /\ minted' = minted + 1
            /\ response' = [kind |-> "connect", code |-> 200,
                            connection_id |-> connection_id]
       ELSE /\ UNCHANGED <<connections, minted>>
            /\ response' = HttpError(500)
    /\ UNCHANGED <<ingestion_jobs, tasks, fs, clock, environ>>

\* a close that answers True without removing anything
KeepAll(conns, connection_id) == conns

\* what ConnectionManager.close_connection leaves in the registry
Remove(conns, connection_id) ==
    [c \in DOMAIN conns \ {connection_id} |-> conns[c]]

\* DELETE /connections/{id}: the HTTPException(404) of the absent case is
\* raised inside the try block and re-raised as 500 by `except Exception`.
close_connection(connection_id) ==
    /\ IF connection_id \in DOMAIN connections
       THEN /\ connections' = Remove(connections, connection_id)
            /\ response' = [kind |-> "close", code |-> 200]
       ELSE /\ UNCHANGED connections
            /\ response' = HttpError(500)
    /\ UNCHANGED <<minted, ingestion_jobs, tasks, fs, clock, environ>>

\* the item identifiers submitted so far, over all jobs
RECURSIVE Submitted(_)
Submitted(jobs) ==
    IF DOMAIN jobs = {} THEN 0
    ELSE LET j == CHOOSE k \in DOMAIN jobs : TRUE IN
         jobs[j].total_files + Submitted([k \in DOMAIN jobs \ {j} |-> jobs[k]])

\* what the bounds leave room for
Room(jobs, requests) ==
    /\ Cardinality(DOMAIN jobs) + Len(requests) <= MaxJobs
    /\ LET RECURSIVE Items(_)
           Items(k) == IF k = 0 THEN 0 ELSE Len(requests[k].file_ids) + Items(k - 1)
       IN Submitted(jobs) + Items(Len(requests)) <= MaxFiles

\* POST /ingest/
ingest_files(request) ==
    /\ Room(ingestion_jobs, <<request>>)
    /\ IF ~KnownConnection(request.connection_id)
       THEN /\ response' = HttpError(500)
            /\ UNCHANGED <<ingestion_jobs, tasks>>
       ELSE LET client == get_client(request.connection_id)
                job_id == NewJobId(ingestion_jobs)
            IN /\ ingestion_jobs' = (job_id :> NewJob(request)) @@ ingestion_jobs
               /\ tasks' = [tasks EXCEPT
                               ![job_id] = QueuedTask(client, request.source_type)]
               /\ response' = JobResponse(job_id, request)
    /\ UNCHANGED <<connections, minted, fs, clock, environ>>

\* the loop of batch_ingest from request k on: the job records stored so far,
\* the tasks added to background_tasks so far, and whether get_client raised
RECURSIVE BatchLoop(_, _, _, _)
BatchLoop(requests, k, jobs, background) ==
    IF k > Len(requests)
    THEN [jobs |-> jobs, background |-> background, raised |-> FALSE]
    ELSE IF ~KnownConnection(requests[k].connection_id)
    THEN [jobs |-> jobs, background |-> background, raised |-> TRUE]
    ELSE LET job_id == NewJobId(jobs) IN
         BatchLoop(requests, k + 1,
                   (job_id :> NewJob(requests[k])) @@ jobs,
                   (job_id :> QueuedTask(get_client(requests[k].connection_id),
                                         requests[k].source_type)) @@ background)

\* The tasks that run once the handler is over.  They are attached to the
\* response the handler returns; when the handler raises, the error response
\* is built by the exception handler and carries none of them.
Scheduled(result) == IF result.raised THEN <<>> ELSE result.background

\* POST /ingest/batch
batch_ingest(requests) ==
    /\ Room(ingestion_jobs, requests)
    /\ LET result == BatchLoop(requests, 1, ingestion_jobs, <<>>)
           scheduled == Scheduled(result)
       IN /\ ingestion_jobs' = result.jobs
          /\ tasks' = [j \in JobIds |->
                          IF j \in DOMAIN scheduled THEN scheduled[j] ELSE tasks[j]]
          /\ response' = IF result.raised
                         THEN HttpError(500)
                         ELSE [kind |-> "batch", code |-> 200,
                               job_ids |-> DOMAIN result.background]
    /\ UNCHANGED <<connections, minted, fs, clock, environ>>

\* GET /ingest/status/{job_id}
get_ingestion_status(job_id) ==
    /\ response' = IF job_id \in DOMAIN ingestion_jobs
                   THEN [kind |-> "status", code |-> 200,
                         body |-> get_job_status(job_id)]
                   ELSE HttpError(404)
    /\ UNCHANGED <<connections, minted, ingestion_jobs, tasks, fs, clock, environ>>

\* ------------------------------------- process_ingestion (worker thread)
\* (variant) a fetch whose client handle stops working once no registered
\* connection holds it
fetch_through_registry(client, source_type, file_id, remote_ok) ==
    CASE source_type = "local_pdf" ->
            IF file_id \in fs THEN file_id ELSE None
      [] source_type \in {"gdrive", "sharepoint"} ->
            IF /\ \E c \in DOMAIN connections : connections[c].client = client
               /\ remote_ok
            THEN "tmp.pdf" ELSE None
      [] OTHER -> None

\* (variant) the wiki and the issue tracker export their items to a file
fetch_with_export(client, source_type, file_id, remote_ok) ==
    CASE source_type = "local_pdf" ->
            IF file_id \in fs THEN file_id ELSE None
      [] OTHER -> IF client # NoClient /\ remote_ok THEN "tmp.pdf" ELSE None

\* (variant) a local path is handed on without looking for the file
fetch_unchecked_path(client, source_type, file_id, remote_ok) ==
    CASE source_type = "local_pdf" -> file_id
      [] source_type \in {"gdrive", "sharepoint"} ->
            IF client # NoClient /\ remote_ok THEN "tmp.pdf" ELSE None
      [] OTHER -> None

\* (variant) a local file is copied to a temporary file first
fetch_local_copy(client, source_type, file_id, remote_ok) ==
    CASE source_type = "local_pdf" ->
            IF file_id \in fs THEN "tmp.pdf" ELSE None
      [] source_type \in {"gdrive", "sharepoint"} ->
            IF client # NoClient /\ remote_ok THEN "tmp.pdf" ELSE None
      [] OTHER -> None

\* _fetch_and_save_file: the local path to hand to the pipeline, or None.
\* `remote_ok` is whether the remote system delivers the object.  A client
\* that is None makes the download raise, which the function's own
\* `except Exception` turns into None.  The registry is not consulted.
fetch_and_save_file(client, source_type, file_id, remote_ok) ==
    CASE source_type = "local_pdf" ->
            IF file_id \in fs THEN file_id ELSE None
      [] source_type \in {"gdrive", "sharepoint"} ->
            IF client # NoClient /\ remote_ok THEN "tmp.pdf" ELSE None
      [] source_type \in {"confluence", "jira"} -> None
      [] OTHER -> None

\* whether the source holds the item and has a fetch implementation for it
SourceReady(source_type, file_id, remote_ok) ==
    CASE source_type = "local_pdf" -> file_id \in fs
      [] source_type \in {"gdrive", "sharepoint"} -> remote_ok
      [] OTHER -> FALSE

\* IngestionProgress(file_id, file_name=file_id, status='processing')
NewProgressItem(file_id) ==
    [file_id |-> file_id, status |-> "processing", chunks_created |-> 0,
     error |-> None]

\* the numbers of chunks the pipeline's "Added <n> chunks" messages add up to
ChunkCounts == {0, 1}

\* (variant) a failed fetch recorded without a reason
FetchFailureSilent(item) == [item EXCEPT !.status = "failed"]

\* lines 161-164: the else branch of `if temp_file_path`
FetchFailure(item) ==
    [item EXCEPT !.status = "failed", !.error = "Failed to fetch file"]

\* (variant) the exception of one item leaves the loop
AbortPc == "aborted"

\* where control goes after the `except Exception` handler of an item
ExceptPc == "append"

\* (variant) the newest record is put first
PrependProgress(progress, item) == <<item>> \o progress

\* (variant) the loop goes on without recording the outcome
SkipRecord(progress, item) == progress

\* job['progress'].append(progress_item.dict())
AppendProgress(progress, item) == Append(progress, item)

\* (variant) the final status ignores the failures
AlwaysCompleted(job) == "completed"

\* 'completed' if job['failed_files'] == 0 else 'partial'
FinalStatus(job) == IF job.failed_files = 0 THEN "completed" ELSE "partial"

\* line 114 and the head of the for loop
ProcessStart(j) ==
    /\ tasks[j].pc = "queued"
    /\ ingestion_jobs' = [ingestion_jobs EXCEPT ![j].status = "in_progress"]
    /\ tasks' = [tasks EXCEPT ![j].i = 1,
                    ![j].pc = IF ingestion_jobs[j].file_ids = <<>>
                              THEN "set_status" ELSE "fetch"]
    /\ UNCHANGED <<connections, minted, fs, clock, environ>>
    /\ response' = NoResponse

\* lines 121-136 and 161-164: the progress item (a local), the fetch, and
\* the else branch of `if temp_file_path` when the fetch returned None
Fetch(j) ==
    /\ tasks[j].pc = "fetch"
    /\ \E remote_ok \in BOOLEAN :
        LET t == tasks[j]
            job == ingestion_jobs[j]
            file_id == job.file_ids[t.i]
            temp_file_path ==
                fetch_and_save_file(t.client, t.source_type, file_id, remote_ok)
            started == [t EXCEPT
                !.item = NewProgressItem(file_id),
                !.temp = temp_file_path,
                !.closed = ~KnownConnection(job.connection_id),
                !.ready = SourceReady(t.source_type, file_id, remote_ok)]
        IN IF temp_file_path # None
           THEN /\ tasks' = [tasks EXCEPT ![j] = [started EXCEPT !.pc = "pipeline"]]
                /\ UNCHANGED ingestion_jobs
           ELSE /\ tasks' = [tasks EXCEPT ![j] = [started EXCEPT
                        !.item = FetchFailure(@),
                        !.pc = "append"]]
                /\ ingestion_jobs' =
                        [ingestion_jobs EXCEPT ![j].failed_files = @ + 1]
    /\ UNCHANGED <<connections, minted, fs, clock, environ>>
    /\ response' = NoResponse

\* lines 166-170: the handler of an exception raised inside the try block
Except(j, text) ==
    /\ tasks' = [tasks EXCEPT
            ![j].item = [@ EXCEPT !.status = "failed", !.error = text],
            ![j].pc = ExceptPc]
    /\ ingestion_jobs' = [ingestion_jobs EXCEPT ![j].failed_files = @ + 1]

\* lines 137-155: the pipeline runs, then the item counts as completed;
\* or the pipeline raises
Pipeline(j) ==
    /\ tasks[j].pc = "pipeline"
    /\ \E ok \in BOOLEAN, chunks_created \in ChunkCounts :
        IF ok
        THEN /\ tasks' = [tasks EXCEPT ![j].item.status = "completed",
                                       ![j].item.chunks_created = chunks_created,
                                       ![j].pc = "cleanup"]
             /\ ingestion_jobs' =
                    [ingestion_jobs EXCEPT ![j].completed_files = @ + 1]
        ELSE Except(j, "pipeline error")
    /\ UNCHANGED <<connections, minted, fs, clock, environ>>
    /\ response' = NoResponse

\* lines 157-159: os.remove of the fetched path (for local_pdf the item's own
\* path); os.remove may raise, and then the except handler runs as well
Cleanup(j) ==
    /\ tasks[j].pc = "cleanup"
    /\ LET path == tasks[j].temp
           exists == path = "tmp.pdf" \/ path \in fs
       IN \/ /\ fs' = fs \ {path}
             /\ tasks' = [tasks EXCEPT ![j].pc = "append"]
             /\ UNCHANGED ingestion_jobs
          \/ /\ exists
             /\ Except(j, "remove error")
             /\ UNCHANGED fs
    /\ UNCHANGED <<connections, minted, clock, environ>>
    /\ response' = NoResponse

\* line 172, and back to the head of the loop
AppendItem(j) ==
    /\ tasks[j].pc = "append"
    /\ ingestion_jobs' = [ingestion_jobs EXCEPT
            ![j].progress = AppendProgress(@, tasks[j].item)]
    /\ tasks' = [tasks EXCEPT
            ![j].i = @ + 1,
            ![j].item = NoItem, ![j].temp = None,
            ![j].closed = FALSE, ![j].ready = FALSE,
            ![j].pc = IF tasks[j].i + 1 > Len(ingestion_jobs[j].file_ids)
                      THEN "set_status" ELSE "fetch"]
    /\ UNCHANGED <<connections, minted, fs, clock, environ>>
    /\ response' = NoResponse

\* line 175
SetStatus(j) ==
    /\ tasks[j].pc = "set_status"
    /\ ingestion_jobs' = [ingestion_jobs EXCEPT ![j].status = FinalStatus(ingestion_jobs[j])]
    /\ tasks' = [tasks EXCEPT ![j].pc = "set_completed_at"]
    /\ UNCHANGED <<connections, minted, fs, clock, environ>>
    /\ response' = NoResponse

\* line 176
SetCompletedAt(j) ==
    /\ tasks[j].pc = "set_completed_at"
    /\ ingestion_jobs' = [ingestion_jobs EXCEPT ![j].completed_at = "set"]
    /\ tasks' = [tasks EXCEPT ![j].pc = "done"]
    /\ UNCHANGED <<connections, minted, fs, clock, environ>>
    /\ response' = NoResponse

process_ingestion(j) ==
    \/ ProcessStart(j)
    \/ Fetch(j)
    \/ Pipeline(j)
    \/ Cleanup(j)
    \/ AppendItem(j)
    \/ SetStatus(j)
    \/ SetCompletedAt(j)

\* ---------------------------------------------------------- specification
\* The requests of the ingestion service and the steps of its workers.
Next ==
    \/ \E source_type \in ConnectSourceTypes, built \in BOOLEAN :
            create_connection(source_type, built)
    \/ \E connection_id \in RequestConnIds : close_connection(connection_id)
    \/ \E request \in IngestionRequest : ingest_files(request)
    \/ \E n \in 1..(MaxJobs - Cardinality(DOMAIN ingestion_jobs)) :
            \E requests \in [1..n -> IngestionRequest] : batch_ingest(requests)
    \/ \E job_id \in JobIds : get_ingestion_status(job_id)
    \/ \E j \in JobIds : process_ingestion(j)

Spec == Init /\ [][Next]_vars

\* ------------------------------------------- the registry, call by call
\* ConnectionManager (config.py) with its records in full.  Its methods are
\* only called from `async def` handlers, so each call is one atomic step.
MaxRegConns == 2    \* connection ids minted in RegistrySpec
MaxClock == 2       \* the values datetime.now() takes

RegistryConnIds == 1..MaxRegConns
\* the ids a caller may pass: 0 is never issued
RegistryRequestIds == 0..MaxRegConns

\* datetime.now(), read after the clock showed `from`: time does not run back
Now(from) == from..MaxClock

\* _initialize_client reads the required fields with config[...], which raises
\* KeyError when one is missing; the local_pdf branch reads its one field with
\* config.get(..., default) and never misses it.
RequiredFieldRead(source_type) == source_type # "local_pdf"

\* _initialize_client: the client (handle), or the exception that came out.
\* `built` is whether the client class could be constructed.
initialize_client(source_type, has_fields, built, handle) ==
    IF RequiredFieldRead(source_type) /\ ~has_fields
    THEN [raised |-> TRUE, exc |-> "KeyError", client |-> NoClient]
    ELSE IF ~built
         THEN [raised |-> TRUE, exc |-> "ClientError", client |-> NoClient]
         ELSE [raised |-> FALSE, exc |-> None, client |-> handle]

\* a probe whose failure goes unrecorded
ProbeUnrecorded(source_type, probe_ok, connected_at) ==
    [source_type |-> source_type, connected_at |-> connected_at,
     status |-> "connected", error |-> None]

\* _get_connection_metadata: an exception of the probe is caught and recorded
get_connection_metadata(source_type, probe_ok, connected_at) ==
    [source_type |-> source_type, connected_at |-> connected_at,
     status |-> IF probe_ok THEN "connected" ELSE "error",
     error |-> IF probe_ok THEN None ELSE "probe error"]

\* a client that is never built (lazy initialization left undone)
NeverInitialized(entry, client) == entry

\* self._connections[connection_id]['client'] = client
Initialized(entry, client) == [entry EXCEPT !.client = client]

\* the entry create_connection stores before it builds the client
StoredConnection(source_type, created_at, last_used) ==
    [source_type |-> source_type, client |-> NoClient,
     created_at |-> created_at, last_used |-> last_used]

\* a failed create that leaves its entry behind
KeepEntry(conns, connection_id) == conns

\* except Exception: del self._connections[connection_id]
CleanUp(conns, connection_id) == Remove(conns, connection_id)

\* raise Exception(f"Failed to initialize ... client: {str(e)}")
CreateError(exc) == "Exception"

\* the settings of a sharepoint configuration whose client was not built
FailedCreateEnv == -1

\* _initialize_client, sharepoint branch: os.environ['SHAREPOINT_...'] =
\* config[...], written before SharePointUtils() is constructed.  The value
\* names the create call the settings came from: the connection's id, or
\* FailedCreateEnv when that call failed.
EnvAfterCreate(env, connection_id, source_type, has_fields, raised) ==
    IF source_type = "sharepoint" /\ has_fields
    THEN IF raised THEN FailedCreateEnv ELSE connection_id
    ELSE env

\* create_connection for the id the uuid draw produced
CreateConnection(connection_id, source_type, has_fields, built, probe_ok) ==
    \E t1 \in Now(clock) : \E t2 \in Now(t1) : \E t3 \in Now(t2) :
        LET args == [source_type |-> source_type, has_fields |-> has_fields,
                     built |-> built, probe_ok |-> probe_ok]
            stored == (connection_id :> StoredConnection(source_type, t1, t2))
                        @@ connections
            init == initialize_client(source_type, has_fields, built, connection_id)
        IN
          /\ environ' = EnvAfterCreate(environ, connection_id, source_type,
                                       has_fields, init.raised)
          /\ IF init.raised
            THEN /\ connections' = CleanUp(stored, connection_id)
                 /\ clock' = t2
                 /\ response' = [kind |-> "raise", fn |-> "create", args |-> args,
                                 exc |-> CreateError(init.exc), text |-> init.exc]
            ELSE /\ connections' =
                        [stored EXCEPT ![connection_id] = Initialized(@, init.client)]
                 /\ clock' = t3
                 /\ response' = [kind |-> "return", fn |-> "create", args |-> args,
                                 connection_id |-> connection_id,
                                 metadata |->
                                    get_connection_metadata(source_type, probe_ok, t3)]

\* ConnectionManager.create_connection; the id drawn is one not seen before
ConnectionManager_create_connection(source_type, has_fields, built, probe_ok) ==
    /\ minted < MaxRegConns
    /\ CreateConnection(minted + 1, source_type, has_fields, built, probe_ok)
    /\ minted' = IF response'.kind = "return" THEN minted + 1 ELSE minted
    /\ UNCHANGED <<ingestion_jobs, tasks, fs>>

\* a retrieval that leaves last_used alone
Untouched(conns, connection_id, t) == conns

\* self._connections[connection_id]['last_used'] = datetime.now().isoformat()
Touched(conns, connection_id, t) == [conns EXCEPT ![connection_id].last_used = t]

\* what each retrieval hands back from the (refreshed) record
Returned(fn, connection_id, entry) ==
    CASE fn = "get" -> entry
      [] fn = "get_client" -> entry.client
      [] fn = "status" ->
            [connection_id |-> connection_id, source_type |-> entry.source_type,
             created_at |-> entry.created_at, last_used |-> entry.last_used,
             connected |-> entry.client # NoClient]

\* get_connection, and the two methods that go through it
Retrieve(fn, connection_id) ==
    /\ IF connection_id \in DOMAIN connections
       THEN \E t \in Now(clock) :
                /\ connections' = Touched(connections, connection_id, t)
                /\ clock' = t
                /\ response' = [kind |-> "return", fn |-> fn,
                                connection_id |-> connection_id,
                                value |-> Returned(fn, connection_id,
                                                   connections'[connection_id])]
       ELSE /\ UNCHANGED <<connections, clock>>
            /\ response' = [kind |-> "raise", fn |-> fn,
                            connection_id |-> connection_id, exc |-> "ValueError"]
    /\ UNCHANGED <<minted, ingestion_jobs, tasks, fs, environ>>

ConnectionManager_get_connection(connection_id) == Retrieve("get", connection_id)

ConnectionManager_get_client(connection_id) == Retrieve("get_client", connection_id)

ConnectionManager_get_connection_status(connection_id) ==
    Retrieve("status", connection_id)

ConnectionManager_close_connection(connection_id) ==
    /\ IF connection_id \in DOMAIN connections
       THEN /\ connections' = Remove(connections, connection_id)
            /\ response' = [kind |-> "return", fn |-> "close",
                            connection_id |-> connection_id, value |-> TRUE]
       ELSE /\ UNCHANGED connections
            /\ response' = [kind |-> "return", fn |-> "close",
                            connection_id |-> connection_id, value |-> FALSE]
    /\ UNCHANGED <<minted, ingestion_jobs, tasks, fs, clock, environ>>

ConnectionManager_list_connections ==
    /\ response' = [kind |-> "return", fn |-> "list",
                    value |-> [c \in DOMAIN connections |->
                                [source_type |-> connections[c].source_type,
                                 created_at |-> connections[c].created_at,
                                 last_used |-> connections[c].last_used]]]
    /\ UNCHANGED <<connections, minted, ingestion_jobs, tasks, fs, clock, environ>>

\* the value of a request that names no connection (connection_id: None)
NoConnectionId == -1

\* sharepoint_router.get_sharepoint_client, the helper every sharepoint
\* endpoint starts with.  With a connection id it is conn_manager.get_client
\* (a ValueError becomes HTTPException 400); without one it constructs
\* SharePointUtils() from os.environ as it is at that moment (a failure
\* becomes HTTPException 500).  `config` names the settings the returned
\* client works with: a registered client those of its own create call.
get_sharepoint_client(connection_id, built) ==
    /\ IF connection_id # NoConnectionId
       THEN IF connection_id \in DOMAIN connections
            THEN \E t \in Now(clock) :
                    /\ connections' = Touched(connections, connection_id, t)
                    /\ clock' = t
                    /\ response' = [kind |-> "return", fn |-> "sharepoint_client",
                                    connection_id |-> connection_id,
                                    config |-> connections[connection_id].client]
            ELSE /\ UNCHANGED <<connections, clock>>
                 /\ response' = [kind |-> "raise", fn |-> "sharepoint_client",
                                 connection_id |-> connection_id,
                                 exc |-> "HTTPException", code |-> 400]
       ELSE /\ UNCHANGED <<connections, clock>>
            /\ response' = IF built
                           THEN [kind |-> "return", fn |-> "sharepoint_client",
                                 connection_id |-> connection_id,
                                 config |-> environ]
                           ELSE [kind |-> "raise", fn |-> "sharepoint_client",
                                 connection_id |-> connection_id,
                                 exc |-> "HTTPException", code |-> 500]
    /\ UNCHANGED <<minted, ingestion_jobs, tasks, fs, environ>>

RegistryNext ==
    \/ \E source_type \in DataSourceType, has_fields, built, probe_ok \in BOOLEAN :
            ConnectionManager_create_connection(source_type, has_fields, built, probe_ok)
    \/ \E connection_id \in RegistryRequestIds :
            ConnectionManager_get_connection(connection_id)
    \/ \E connection_id \in RegistryRequestIds :
            ConnectionManager_get_client(connection_id)
    \/ \E connection_id \in RegistryRequestIds :
            ConnectionManager_get_connection_status(connection_id)
    \/ \E connection_id \in RegistryRequestIds :
            ConnectionManager_close_connection(connection_id)
    \/ ConnectionManager_list_connections
    \/ \E connection_id \in RegistryRequestIds \cup {NoConnectionId}, built \in BOOLEAN :
            get_sharepoint_client(connection_id, built)

RegistrySpec == Init /\ [][RegistryNext]_vars

\* ------------------------------------------------ the drawing of ids
\* Both ids are cut from uuid.uuid4().hex (8 and 12 hex digits) and used as
\* dict keys without a look at the keys already there.  Here a draw may give
\* any id of a small pool, one in use included.
IdRequests ==
    [source_type : {"local_pdf", "gdrive"}, connection_id : ConnIds,
     file_ids : {<<>>, <<"a.pdf">>}]

\* create_connection with whatever id the draw gives; the id starts with the
\* source type, so it can only repeat an id of the same source type
uuid_create_connection(connection_id, source_type, built) ==
    /\ connection_id \in DOMAIN connections
            => connections[connection_id].source_type = source_type
    /\ CreateConnection(connection_id, source_type, TRUE, built, TRUE)
    /\ UNCHANGED <<minted, ingestion_jobs, tasks, fs>>

\* create_ingestion_job with whatever id the draw gives
uuid_create_ingestion_job(job_id, request) ==
    /\ ingestion_jobs' = (job_id :> NewJob(request)) @@ ingestion_jobs
    /\ response' = JobResponse(job_id, request)
    /\ UNCHANGED <<connections, minted, tasks, fs, clock, environ>>

IdNext ==
    \/ \E connection_id \in RegistryConnIds, source_type \in ConnectSourceTypes,
          built \in BOOLEAN :
            uuid_create_connection(connection_id, source_type, built)
    \/ \E job_id \in JobIds, request \in IdRequests :
            uuid_create_ingestion_job(job_id, request)

IdSpec == Init /\ [][IdNext]_vars

\* ------------------------------------------------ the drive's file list
\* GDriveService.list_files (services/gdrive_service.py).  The folder listing
\* is the sequence of files the drive holds for the folder, a file standing
\* for its FileInfo.
MaxListing == 5     \* files in the folder
MaxLimit == 3       \* the limit of a request

Listings == {[k \in 1..n |-> k] : n \in 0..MaxListing}

\* seq[lo:hi] of Python, for 0 <= lo
PySlice(seq, lo, hi) ==
    LET last == IF hi < Len(seq) THEN hi ELSE Len(seq) IN
    IF lo >= last THEN <<>> ELSE SubSeq(seq, lo + 1, last)

\* self.client.list_files(folder_id, file_types, max_results): the drive
\* client hands back no more than max_results files of the folder
client_list_files(listing, max_results) == PySlice(listing, 0, max_results)

\* list_files, the folder found and the client answering
list_files(listing, limit, offset) ==
    LET files_data == client_list_files(listing, limit)
        files == PySlice(files_data, offset, offset + limit)
    IN  [success |-> TRUE, files |-> files, total_count |-> Len(files_data),
         has_more |-> (offset + Len(files)) < Len(files_data)]

\* POST /gdrive/list-files
GDriveService_list_files(listing, limit, offset) ==
    /\ response' = [kind |-> "files", listing |-> listing, limit |-> limit,
                    offset |-> offset, value |-> list_files(listing, limit, offset)]
    /\ UNCHANGED <<connections, minted, ingestion_jobs, tasks, fs, clock, environ>>

PagingNext ==
    \E listing \in Listings, limit \in 1..MaxLimit, offset \in 0..MaxListing :
        GDriveService_list_files(listing, limit, offset)

PagingSpec == Init /\ [][PagingNext]_vars

\* ------------------------------------------------------------ properties
Jobs == DOMAIN ingestion_jobs

Terminal(status) == status \in {"completed", "partial"}

\* the number of Progress records of a sequence that have the given status
Count(progress, status) ==
    Cardinality({i \in 1..Len(progress) : progress[i].status = status})

\* C1: for every job, completed_files + failed_files never exceeds
\* total_files, and equals it once the status is completed or partial.
C1_CountersWithinTotal ==
    \A j \in Jobs :
        LET job == ingestion_jobs[j] IN
        /\ job.completed_files + job.failed_files <= job.total_files
        /\ Terminal(job.status) =>
                job.completed_files + job.failed_files = job.total_files

\* C2: a failed item never aborts the batch: a started process is either
\* able to take its next step or has returned with the job terminal and one
\* recorded outcome for every submitted item, those after a failed item
\* included.
C2_FailureNeverAborts ==
    \A j \in Jobs :
        LET job == ingestion_jobs[j]
            t == tasks[j]
            passed == CASE t.pc = "queued" -> 0
                        [] t.pc \in {"fetch", "pipeline", "cleanup", "append"} ->
                                t.i - 1
                        [] OTHER -> Len(job.file_ids)
        IN t.pc # "none" =>
            /\ Len(job.progress) = passed
            /\ \A i \in 1..Len(job.progress) :
                    /\ job.progress[i].file_id = job.file_ids[i]
                    /\ job.progress[i].status \in {"completed", "failed"}
            /\ IF t.pc = "done"
               THEN Terminal(job.status)
               ELSE ENABLED process_ingestion(j)

\* C2 witness: a process that returned after its first item failed and its
\* second item completed.
C2_Witness ==
    \E j \in Jobs :
        /\ tasks[j].pc = "done"
        /\ Len(ingestion_jobs[j].progress) = 2
        /\ ingestion_jobs[j].progress[1].status = "failed"
        /\ ingestion_jobs[j].progress[2].status = "completed"

C4_SnapshotConsistent ==
    (response.kind = "status" /\ response.body.status = "in_progress") =>
        /\ response.body.completed_files = Count(response.body.progress, "completed")
        /\ response.body.failed_files = Count(response.body.progress, "failed")

\* C5: every created job gets processed: as long as it is not completed or
\* partial, its process_ingestion call is there to take the next step.
C5_EveryJobProcessed ==
    \A j \in Jobs :
        Terminal(ingestion_jobs[j].status) \/ ENABLED process_ingestion(j)

\* the statuses a job may have next
StatusNext(status) ==
    CASE status = "pending" -> {"pending", "in_progress"}
      [] status = "in_progress" -> {"in_progress", "completed", "partial"}
      [] OTHER -> {status}

\* C6 (as claimed): the status only moves forward along pending ->
\* in_progress -> (completed | partial), and once it is completed or partial
\* nothing of the job record changes again.
C6_TerminalFrozen ==
    [][\A j \in Jobs :
            /\ j \in DOMAIN ingestion_jobs'
            /\ ingestion_jobs'[j].status \in StatusNext(ingestion_jobs[j].status)
            /\ Terminal(ingestion_jobs[j].status) =>
                    ingestion_jobs'[j] = ingestion_jobs[j]]_vars

\* C6 (amended): the status only moves forward along pending -> in_progress
\* -> (completed | partial); once it is completed or partial, the status, the
\* counters and the Progress sequence never change again; the completion
\* timestamp is written once, after the status has turned terminal, and once
\* written nothing of the job record changes again.
C6_ForwardOnly ==
    [][\A j \in Jobs :
            LET job == ingestion_jobs[j] IN
            /\ j \in DOMAIN ingestion_jobs'
            /\ job.status \in {"pending", "in_progress", "completed", "partial"}
            /\ ingestion_jobs'[j].status \in StatusNext(job.status)
            /\ Terminal(job.status) =>
                    ingestion_jobs'[j] =
                        [job EXCEPT !.completed_at = ingestion_jobs'[j].completed_at]
            /\ job.completed_at # None =>
                    /\ Terminal(job.status)
                    /\ ingestion_jobs'[j] = job]_vars

\* C6 witness: a job is terminal with its timestamp, and the coordinator is
\* at work on another job.
C6_Witness ==
    \E j, k \in Jobs :
        /\ Terminal(ingestion_jobs[j].status)
        /\ ingestion_jobs[j].completed_at # None
        /\ ingestion_jobs[k].status = "in_progress"

Created(job_id) ==
    /\ job_id \in Jobs
    /\ ingestion_jobs[job_id].status = "pending"
    /\ ingestion_jobs[job_id].total_files = Len(ingestion_jobs[job_id].file_ids)
    /\ ingestion_jobs[job_id].completed_files = 0
    /\ ingestion_jobs[job_id].failed_files = 0
    /\ ingestion_jobs[job_id].completed_at = None
    /\ tasks[job_id].pc = "queued"

C9_EmptyListRejected ==
    \A j \in Jobs :
        /\ ingestion_jobs[j].total_files > 0
        /\ ingestion_jobs[j].file_ids # <<>>

\* the Progress records follow the submitted list: record i is item i
FollowsSubmission(progress, file_ids) ==
    /\ Len(progress) <= Len(file_ids)
    /\ \A i \in 1..Len(progress) : progress[i].file_id = file_ids[i]

\* C10: in every job state, and so in every snapshot a status query
\* returns, Progress record i is that of submitted item i, whichever items
\* failed, and a terminal job has exactly one record per submitted item.
C10_ProgressInSubmissionOrder ==
    /\ \A j \in Jobs :
        LET job == ingestion_jobs[j] IN
        /\ FollowsSubmission(job.progress, job.file_ids)
        /\ Terminal(job.status) => Len(job.progress) = Len(job.file_ids)
    /\ response.kind = "status" =>
        LET body == response.body IN
        /\ FollowsSubmission(body.progress, ingestion_jobs[body.job_id].file_ids)
        /\ Terminal(body.status) => Len(body.progress) = body.total_files

\* C10 witness: a status query returns a terminal job of two different
\* items, the first of them failed.
C10_Witness ==
    /\ response.kind = "status"
    /\ Terminal(response.body.status)
    /\ Len(response.body.progress) = 2
    /\ response.body.progress[1].status = "failed"
    /\ response.body.progress[1].file_id # response.body.progress[2].file_id

\* ------------------------------------------- properties of the registry
\* the calls that go through get_connection
Retrievals == {"get", "get_client", "status"}

IsCall(r, fn) == r.kind \in {"return", "raise"} /\ r.fn = fn

\* C11: a create call that fails, whether on a missing configuration field
\* or on the construction of the client, leaves the registry exactly as it
\* was: same ids, same records, nothing left behind, nothing removed.
C11_FailedCreateLeavesRegistry ==
    [][(IsCall(response', "create") /\ response'.kind = "raise")
            => connections' = connections]_vars

\* a create has just failed while another connection was registered
C11_Witness ==
    /\ IsCall(response, "create") /\ response.kind = "raise"
    /\ response.text = "ClientError"
    /\ connections # <<>>

\* C12: when the client is built and the probe fails, create returns: the
\* connection is registered with a client handle, the metadata says status
\* error with a diagnostic text; and a retrieval only fails for an id that is
\* not registered, so later get / get_client calls on that id succeed.
C12_ProbeFailureKeepsConnection ==
    /\ (IsCall(response, "create") /\ ~response.args.probe_ok /\ response.args.built
            /\ (response.args.has_fields \/ ~RequiredFieldRead(response.args.source_type)))
        => /\ response.kind = "return"
           /\ response.connection_id \in DOMAIN connections
           /\ connections[response.connection_id].client # NoClient
           /\ response.metadata.status = "error"
           /\ response.metadata.error # None
    /\ \A fn \in {"get", "get_client"} :
        (IsCall(response, fn) /\ response.kind = "raise")
            => response.connection_id \notin DOMAIN connections
    /\ (IsCall(response, "get_client") /\ response.kind = "return")
            => response.value # NoClient

\* a create has just returned with a failed probe
C12_Witness ==
    /\ IsCall(response, "create") /\ response.kind = "return"
    /\ ~response.args.probe_ok
    /\ response.metadata.status = "error"

\* C13: every registered connection, of whatever source type, has a client
\* handle and last_used >= created_at, and no reader is shown anything else:
\* get returns such a record and the status query reports connected.
C13_RegisteredHasClient ==
    /\ \A c \in DOMAIN connections :
        /\ connections[c].client # NoClient
        /\ connections[c].last_used >= connections[c].created_at
    /\ (IsCall(response, "get") /\ response.kind = "return")
        => /\ response.value.client # NoClient
           /\ response.value.last_used >= response.value.created_at
    /\ (IsCall(response, "status") /\ response.kind = "return")
        => /\ response.value.connected
           /\ response.value.last_used >= response.value.created_at
    /\ IsCall(response, "list")
        => \A c \in DOMAIN response.value :
                response.value[c].last_used >= response.value[c].created_at

\* every source type is registered at some time and read through get
C13_Witness ==
    /\ IsCall(response, "get") /\ response.kind = "return"
    /\ response.value.last_used > response.value.created_at
    /\ {connections[c].source_type : c \in DOMAIN connections} = {"jira", "sharepoint"}

\* C14: close on a registered id returns true and removes exactly that entry,
\* the others staying as they are; close on an absent id returns false and
\* changes nothing; an id that was closed is never registered again, and a
\* get on an id that is not registered fails with not-found.
C14_CloseRemovesExactlyOne ==
    [][/\ IsCall(response', "close") =>
            LET id == response'.connection_id IN
            IF id \in DOMAIN connections
            THEN /\ response'.value = TRUE
                 /\ DOMAIN connections' = DOMAIN connections \ {id}
                 /\ \A c \in DOMAIN connections' : connections'[c] = connections[c]
            ELSE /\ response'.value = FALSE
                 /\ connections' = connections
       /\ \A c \in RegistryConnIds :
            (c <= minted /\ c \notin DOMAIN connections) => c \notin DOMAIN connections'
       /\ (IsCall(response', "get") /\ response'.connection_id \notin DOMAIN connections)
            => (response'.kind = "raise" /\ response'.exc = "ValueError")
      ]_vars

\* a get on a closed id has failed while the other connection is still there
C14_Witness ==
    /\ IsCall(response, "get") /\ response.kind = "raise"
    /\ response.connection_id \in 1..minted
    /\ connections # <<>>

\* C15: deleting an id that is not registered (a second delete of the same
\* id included) is answered with a not-found outcome (404), never with a
\* server error.
C15_AbsentDeleteNotFound ==
    [][\A c \in RequestConnIds :
        (c \notin DOMAIN connections /\ close_connection(c)) => response'.code = 404]_vars

\* C16: a get on a registered id sets that connection's last_used to the
\* current time and changes nothing else; on an absent id it fails with
\* not-found and changes nothing; get_client and the status query do the
\* same through get; list changes no record.  last_used never decreases and
\* created_at never changes.
C16_GetRefreshesLastUsedOnly ==
    [][/\ \A fn \in Retrievals : IsCall(response', fn) =>
            LET id == response'.connection_id IN
            IF id \in DOMAIN connections
            THEN /\ response'.kind = "return"
                 /\ DOMAIN connections' = DOMAIN connections
                 /\ \A c \in DOMAIN connections \ {id} : connections'[c] = connections[c]
                 /\ connections'[id] = [connections[id] EXCEPT !.last_used = clock']
                 /\ clock' >= clock
            ELSE /\ response'.kind = "raise" /\ response'.exc = "ValueError"
                 /\ connections' = connections
       /\ IsCall(response', "list") => connections' = connections
       /\ \A c \in DOMAIN connections \cap DOMAIN connections' :
            /\ connections'[c].last_used >= connections[c].last_used
            /\ connections'[c].created_at = connections[c].created_at
      ]_vars

\* the status query has moved a connection's last_used past its created_at
C16_Witness ==
    /\ IsCall(response, "status") /\ response.kind = "return"
    /\ response.value.last_used > response.value.created_at
    /\ connections[response.connection_id].last_used = response.value.last_used

\* C17: a create whose configuration lacks a required field fails, and with
\* an error kind other than the one a failed client construction gives.
C17_ConfigErrorDistinct ==
    (IsCall(response, "create") /\ ~response.args.has_fields)
        => /\ response.kind = "raise"
           /\ response.exc # CreateError("ClientError")

\* ------------------------------------------ properties of job outcomes
\* the source types whose fetch branch returns None without trying
Unsupported == {"confluence", "jira"}

Distinct(seq) == \A a, b \in 1..Len(seq) : a # b => seq[a] # seq[b]

\* the records of the paths that did not exist when they were fetched
MissingPaths(progress) ==
    {k \in 1..Len(progress) : progress[k].error = "Failed to fetch file"}

\* the records of a given error text
WithError(progress, text) == {k \in 1..Len(progress) : progress[k].error = text}

\* what the claim promises for an ended local job with m >= 1 missing paths
LocalOutcome(job) ==
    LET m == Cardinality(MissingPaths(job.progress)) IN
    /\ job.status = "partial"
    /\ job.completed_files = job.total_files - m
    /\ job.failed_files = m
    /\ {k \in 1..Len(job.progress) : job.progress[k].status = "failed"}
            = MissingPaths(job.progress)

C20_IdentitiesUnique ==
    [][/\ IsCall(response', "create") =>
            /\ \A c \in DOMAIN connections :
                    c \in DOMAIN connections' /\ connections'[c] = connections[c]
            /\ response'.kind = "return"
                    => response'.connection_id \notin DOMAIN connections
       /\ response'.kind = "ingest" =>
            /\ response'.job_id \notin DOMAIN ingestion_jobs
            /\ \A j \in DOMAIN ingestion_jobs : ingestion_jobs'[j] = ingestion_jobs[j]
      ]_vars

\* --------------------------------------- properties of the item loop
\* the positions inside the body of the for loop
InLoop == {"fetch", "pipeline", "cleanup", "append"}

\* C21: a job works on one item at a time, in submission order: while it is
\* at item i, the outcomes of exactly the items 1..i-1 are recorded, in that
\* order, and the item in hand is the i-th submitted one, whatever the other
\* jobs are doing.
C21_OneItemAtATime ==
    \A j \in Jobs :
        LET job == ingestion_jobs[j]
            t == tasks[j]
        IN  t.pc \in InLoop =>
            /\ t.i \in 1..Len(job.file_ids)
            /\ Len(job.progress) = t.i - 1
            /\ \A k \in 1..(t.i - 1) :
                /\ job.progress[k].file_id = job.file_ids[k]
                /\ job.progress[k].status \in {"completed", "failed"}
            /\ t.pc # "fetch" => t.item.file_id = job.file_ids[t.i]

\* a job is about to fetch its second item while another job is in progress
C21_Witness ==
    \E j, other \in Jobs :
        /\ j # other
        /\ tasks[j].pc = "fetch" /\ tasks[j].i = 2
        /\ ingestion_jobs[other].status = "in_progress"

\* C22: while the pipeline runs for an item, the status snapshot of the job
\* holds a Progress record of that item with status processing.
C22_ProcessingVisible ==
    \A j \in Jobs :
        tasks[j].pc = "pipeline" =>
            \E k \in 1..Len(get_job_status(j).progress) :
                /\ get_job_status(j).progress[k].file_id = tasks[j].item.file_id
                /\ get_job_status(j).progress[k].status = "processing"

\* 1 when the item in hand has the given status
Tally(item, status) == IF item.status = status THEN 1 ELSE 0

\* C23: each item adds one to exactly one counter, once, and its Progress
\* status agrees with that counter: each counter equals the number of items,
\* recorded or in hand, that have the counter's status.
C23_OneCounterPerItem ==
    \A j \in Jobs :
        LET job == ingestion_jobs[j] IN
        /\ job.completed_files =
                Count(job.progress, "completed") + Tally(tasks[j].item, "completed")
        /\ job.failed_files =
                Count(job.progress, "failed") + Tally(tasks[j].item, "failed")

C25_FailedSubmissionLeavesJobs ==
    [][response'.kind = "error" => ingestion_jobs' = ingestion_jobs]_vars

\* C26: the source type a job is processed with is the source type of the
\* connection whose client handle the job was given.
C26_AdapterMatchesConnection ==
    \A j \in Jobs : \A c \in DOMAIN connections :
        connections[c].client = tasks[j].client
            => tasks[j].source_type = connections[c].source_type

\* C28: the error recorded for an item of a source type without a fetch
\* implementation is not the error of an ordinary fetch failure.
C28_UnsupportedErrorDistinct ==
    \A j \in Jobs :
        ingestion_jobs[j].source_type \in Unsupported =>
            \A k \in 1..Len(ingestion_jobs[j].progress) :
                ingestion_jobs[j].progress[k].error # "Failed to fetch file"

RECURSIVE PagesFrom(_, _, _, _)
\* the files a caller collects who asks for page after page, from `offset`
\* on, for as long as has_more is true (at most `calls` requests)
PagesFrom(listing, limit, offset, calls) ==
    LET page == list_files(listing, limit, offset) IN
    page.files \o (IF page.has_more /\ calls > 1
                   THEN PagesFrom(listing, limit, offset + limit, calls - 1)
                   ELSE <<>>)

\* C29: a call with (limit, offset) returns the files offset .. offset+limit-1
\* of the folder listing, total_count is the length of the listing, has_more
\* says whether files remain after the returned ones, and asking for the
\* pages offset = 0, limit, 2*limit, ... while has_more holds collects the
\* whole listing, each file once.
C29_PagesCorrect ==
    response.kind = "files" =>
        LET listing == response.listing
            page == response.value
        IN  /\ page.files = PySlice(listing, response.offset,
                                    response.offset + response.limit)
            /\ page.total_count = Len(listing)
            /\ page.has_more = (response.offset + Len(page.files) < Len(listing))
            /\ PagesFrom(listing, response.limit, 0, MaxListing + 1) = listing

\* C30: a sharepoint request works with the settings of the caller's own
\* connection; a request that names no connection works with the deployment
\* environment, never with the settings another caller supplied, and never
\* with those of a connection that was closed.
C30_CallerIsolation ==
    [][IsCall(response', "sharepoint_client") /\ response'.kind = "return"
        => /\ response'.connection_id = NoConnectionId
                => response'.config = DeploymentEnv
           /\ response'.config \notin (1..minted) \ DOMAIN connections]_vars

====
